---- MODULE Spec2Model ----
(***************************************************************************)
(* KITTIDataset (src/KITTIDataset.py): the constructor's validation and    *)
(* length accumulation, and __getitem__'s routing of a flat index to a     *)
(* frame pair and a pose record.                                           *)
(*                                                                         *)
(* A Python list argument that may be None is the record                   *)
(* [given |-> BOOLEAN, val |-> sequence]; Python's 0-based position i is   *)
(* position i + 1 of the TLA+ sequence.                                    *)
(***************************************************************************)
EXTENDS Integers, Sequences, FiniteSets

VARIABLES phase, args, self, initErr, idx, pose1, pose2, ret

vars == <<phase, args, self, initErr, idx, pose1, pose2, ret>>

\* Largest number of entries of a list argument of the constructor.
MaxWindows == 2

\* ------------------------------------------------------------------ inputs

\* Windows offered to the constructor, each <<sequence, startFrame, endFrame>>:
\* four the checks accept, then one for each way a check can fail (sequence
\* below 0, above 10; start below 0, above the sequence's last frame; end not
\* above start, above the sequence's last frame).
WindowVals ==
    {<<0, 0, 3>>, <<1, 0, 2>>, <<0, 2, 3>>, <<0, 0, 1101>>,
     <<-1, 0, 2>>, <<11, 0, 2>>, <<1, -1, 2>>, <<1, 1101, 1102>>,
     <<0, 2, 2>>, <<1, 0, 1101>>}

\* How a list argument is passed: whole, without its last entry, or left None.
Shapes == {"whole", "short", "none"}

\* The four tags __getitem__ knows, and one it does not.
KnownTags == {"default", "quaternion", "euler", "se3"}

TagVals == KnownTags \cup {"axis"}

None == [given |-> FALSE, val |-> <<>>]

Given(l) == [given |-> TRUE, val |-> l]

AllButLast(l) == IF Len(l) = 0 THEN l ELSE SubSeq(l, 1, Len(l) - 1)

Shaped(l, shape) ==
    CASE shape = "whole" -> Given(l)
      [] shape = "short" -> Given(AllButLast(l))
      [] shape = "none"  -> None

\* The c-th component of every window of w.
Column(w, c) == [k \in 1..Len(w) |-> w[k][c]]

\* ------------------------------------------------------------- constructor

KITTIMaxFrames == <<4540, 1100, 4660, 800, 270, 2760, 1100, 1100, 4070, 1590, 1200>>

\* x if x is not None else d
OrDefault(x, d) == IF x.given THEN x.val ELSE d

RECURSIVE SeqMin(_)
SeqMin(l) ==
    IF Len(l) = 1 THEN l[1]
    ELSE LET m == SeqMin(Tail(l)) IN IF l[1] < m THEN l[1] ELSE m

RECURSIVE SeqMax(_)
SeqMax(l) ==
    IF Len(l) = 1 THEN l[1]
    ELSE LET m == SeqMax(Tail(l)) IN IF l[1] > m THEN l[1] ELSE m

\* The object the constructor is filling in, before the checks.
NewSelf(a) ==
    LET sequences == OrDefault(a.sequences, <<1>>) IN
    [sequences |-> sequences,
     startFrames |-> OrDefault(a.startFrames, <<0>>),
     endFrames |-> OrDefault(a.endFrames, <<1100>>),
     parameterization |-> a.parameterization,
     length |-> 0,
     cumulativeLengths |-> [k \in 1..Len(sequences) |-> 0]]

\* The range and length checks made before the loop; min() and max() of an
\* empty list raise ValueError themselves.
PreCheck(s) ==
    IF Len(s.sequences) = 0 THEN "ValueError"
    ELSE IF SeqMin(s.sequences) < 0 \/ SeqMax(s.sequences) > 10 THEN "ValueError"
    ELSE IF Len(s.sequences) # Len(s.startFrames) THEN "ValueError"
    ELSE IF Len(s.sequences) # Len(s.endFrames) THEN "ValueError"
    ELSE "none"

StartFrameBad(s, i) ==
    s.startFrames[i] < 0 \/ s.startFrames[i] > KITTIMaxFrames[s.sequences[i] + 1]

\* EndFrameBad without the check against the sequence's last frame.
EndFrameBadNoMax(s, i) ==
    s.endFrames[i] < 0 \/ s.endFrames[i] <= s.startFrames[i]

\* EndFrameBad without the check that the end is above the start.
EndFrameBadNoOrder(s, i) ==
    s.endFrames[i] < 0 \/ s.endFrames[i] > KITTIMaxFrames[s.sequences[i] + 1]

EndFrameBad(s, i) ==
    \/ s.endFrames[i] < 0
    \/ s.endFrames[i] <= s.startFrames[i]
    \/ s.endFrames[i] > KITTIMaxFrames[s.sequences[i] + 1]

\* The span added to self.length: read from the arguments, not from self, so
\* subscripting an argument left None raises TypeError.
SpanErr(a, i) == IF a.endFrames.given /\ a.startFrames.given THEN "none" ELSE "TypeError"

\* Span counting both end points of the window.
SpanInclusive(a, i) == a.endFrames.val[i] - a.startFrames.val[i] + 1

Span(a, i) == a.endFrames.val[i] - a.startFrames.val[i]

\* The loop over the windows, from window i on; the object and the error.
RECURSIVE CheckLoop(_, _, _)
CheckLoop(a, s, i) ==
    IF i > Len(s.sequences) THEN [obj |-> s, err |-> "none"]
    ELSE IF StartFrameBad(s, i) THEN [obj |-> s, err |-> "ValueError"]
    ELSE IF EndFrameBad(s, i) THEN [obj |-> s, err |-> "ValueError"]
    ELSE IF SpanErr(a, i) # "none" THEN [obj |-> s, err |-> SpanErr(a, i)]
    ELSE LET length == s.length + Span(a, i) IN
         CheckLoop(a,
                   [s EXCEPT !.length = length, !.cumulativeLengths[i] = length],
                   i + 1)

LengthCheck(s) == IF s.length < 0 THEN "ValueError" ELSE "none"

\* KITTIDataset(kitti_base_dir, sequences, startFrames, endFrames, parameterization)
KITTIDatasetInit(a) ==
    LET s0 == NewSelf(a)
        pre == PreCheck(s0)
    IN  IF pre # "none" THEN [obj |-> s0, err |-> pre]
        ELSE LET r == CheckLoop(a, s0, 1) IN
             IF r.err # "none" THEN r
             ELSE [obj |-> r.obj, err |-> LengthCheck(r.obj)]

\* __len__
DatasetLen(s) == s.length

\* ------------------------------------------------------------------- poses

\* Lines of a pose file: 12 numbers, a 3x4 matrix row by row.  The identity,
\* a quarter turn about z with translation (1,0,0), a half turn about z with
\* translation (0,2,0).
PoseLines ==
    {<<1, 0, 0, 0,   0, 1, 0, 0,   0, 0, 1, 0>>,
     <<0, -1, 0, 1,  1, 0, 0, 0,   0, 0, 1, 0>>,
     <<-1, 0, 0, 0,  0, -1, 0, 2,  0, 0, 1, 0>>}

\* np.vstack([np.reshape(line, (3, 4)), [[0, 0, 0, 1]]])
Pose4x4(line) ==
    <<<<line[1], line[2], line[3], line[4]>>,
      <<line[5], line[6], line[7], line[8]>>,
      <<line[9], line[10], line[11], line[12]>>,
      <<0, 0, 0, 1>>>>

Dot(A, B, i, j) ==
    A[i][1] * B[1][j] + A[i][2] * B[2][j] + A[i][3] * B[3][j] + A[i][4] * B[4][j]

MatRow(A, B, i) == <<Dot(A, B, i, 1), Dot(A, B, i, 2), Dot(A, B, i, 3), Dot(A, B, i, 4)>>

\* np.dot of two 4x4 matrices
MatMul(A, B) == <<MatRow(A, B, 1), MatRow(A, B, 2), MatRow(A, B, 3), MatRow(A, B, 4)>>

\* The three indices of 1..4 other than i, in order.
Others(i) ==
    CASE i = 1 -> <<2, 3, 4>>
      [] i = 2 -> <<1, 3, 4>>
      [] i = 3 -> <<1, 2, 4>>
      [] i = 4 -> <<1, 2, 3>>

\* The determinant of A without rows outside r and columns outside c.
Det3(A, r, c) ==
      A[r[1]][c[1]] * (A[r[2]][c[2]] * A[r[3]][c[3]] - A[r[2]][c[3]] * A[r[3]][c[2]])
    - A[r[1]][c[2]] * (A[r[2]][c[1]] * A[r[3]][c[3]] - A[r[2]][c[3]] * A[r[3]][c[1]])
    + A[r[1]][c[3]] * (A[r[2]][c[1]] * A[r[3]][c[2]] - A[r[2]][c[2]] * A[r[3]][c[1]])

Cofactor(A, i, j) ==
    (IF (i + j) % 2 = 0 THEN 1 ELSE -1) * Det3(A, Others(i), Others(j))

Det4(A) ==
    A[1][1] * Cofactor(A, 1, 1) + A[1][2] * Cofactor(A, 1, 2)
  + A[1][3] * Cofactor(A, 1, 3) + A[1][4] * Cofactor(A, 1, 4)

InvRow(A, d, i) ==
    <<Cofactor(A, 1, i) \div d, Cofactor(A, 2, i) \div d,
      Cofactor(A, 3, i) \div d, Cofactor(A, 4, i) \div d>>

\* np.linalg.inv: the adjugate over the determinant (the poses offered have
\* determinant 1, so the division is exact).
MatInv(A) ==
    LET d == Det4(A) IN <<InvRow(A, d, 1), InvRow(A, d, 2), InvRow(A, d, 3), InvRow(A, d, 4)>>

\* M[0:3, 0:3]
RotOf(M) ==
    <<<<M[1][1], M[1][2], M[1][3]>>,
      <<M[2][1], M[2][2], M[2][3]>>,
      <<M[3][1], M[3][2], M[3][3]>>>>

\* M[0:3, 3]
TransOf(M) == <<M[1][4], M[2][4], M[3][4]>>

\* pose2wrt1 = np.dot(np.linalg.inv(pose1), pose2)
RelativePose(p1, p2) == MatMul(MatInv(p1), p2)

\* atan2(y, x) for y, x in {-1, 0, 1}, in units of pi/4.
Atan2(y, x) ==
    CASE y = 0 /\ x >= 0 -> 0
      [] y = 0 /\ x < 0  -> 4
      [] y > 0 /\ x > 0  -> 1
      [] y > 0 /\ x = 0  -> 2
      [] y > 0 /\ x < 0  -> 3
      [] y < 0 /\ x > 0  -> -1
      [] y < 0 /\ x = 0  -> -2
      [] y < 0 /\ x < 0  -> -3

Sgn(d) == IF d < 0 THEN -1 ELSE 1

\* tr2rpy(R): roll, pitch, yaw in units of pi/4 (pitch is 0, +-pi/2 here).
Tr2rpy(R) == <<Atan2(R[3][2], R[3][3]), -2 * R[3][1], Atan2(R[2][1], R[1][1])>>

\* r2q(R): scalar first; each component c is held as sign(c) * 4 * c^2.
R2q(R) ==
    <<R[1][1] + R[2][2] + R[3][3] + 1,
      Sgn(R[3][2] - R[2][3]) * (1 + R[1][1] - R[2][2] - R[3][3]),
      Sgn(R[1][3] - R[3][1]) * (1 - R[1][1] + R[2][2] - R[3][3]),
      Sgn(R[2][1] - R[1][2]) * (1 - R[1][1] - R[2][2] + R[3][3])>>

\* tr2eul(R): the three angles in units of pi/4, for a rotation about z.
Tr2eul(R) == <<0, Atan2(R[1][3], R[3][3]), Atan2(R[2][1], R[2][2])>>

\* 10. * torch.FloatTensor([rx, ry, rz])
Times10(v) == <<10 * v[1], 10 * v[2], 10 * v[3]>>

\* ------------------------------------------------------------- __getitem__

\* helpers.first_ge(a, x): the position of the first entry that routes x, 0 when
\* there is none.
FirstGe(a, x) ==
    IF \E k \in 1..Len(a) : a[k] > x
    THEN CHOOSE k \in 1..Len(a) : a[k] > x /\ \A j \in 1..(k - 1) : ~(a[j] > x)
    ELSE 0

\* Offset subtracting the window's own cumulative length.
OffsetOwnCumulative(s, seqKey, i) ==
    IF seqKey = 1 THEN i ELSE i - s.cumulativeLengths[seqKey]

Offset(s, seqKey, i) ==
    IF seqKey = 1 THEN i ELSE i - s.cumulativeLengths[seqKey - 1]

Frame1(s, seqKey, i) == s.startFrames[seqKey] + Offset(s, seqKey, i)

Frame2(s, seqKey, i) == Frame1(s, seqKey, i) + 1

\* EndOfSequence comparing frame1 with the end frame.
EndOfSequenceFrame1(s, seqKey, i) == Frame1(s, seqKey, i) = s.endFrames[seqKey]

EndOfSequence(s, seqKey, i) == Frame2(s, seqKey, i) = s.endFrames[seqKey]

\* The image file of a frame is on disk for frames 0..KITTIMaxFrames[seq];
\* cv2.imread gives None for a missing file and cv2.cvtColor then raises.
ImageExists(seqIdx, frame) == frame \in 0..KITTIMaxFrames[seqIdx + 1]

\* The rotation and translation returned under each tag.
Rotation(tag, p1, p2) ==
    CASE tag = "default"    -> Tr2rpy(RotOf(RelativePose(p1, p2)))
      [] tag = "quaternion" -> R2q(RotOf(RelativePose(p1, p2)))
      [] tag = "euler"      -> Times10(Tr2eul(RotOf(RelativePose(p1, p2))))
      [] tag = "se3"        -> R2q(RotOf(p2))
      [] OTHER              -> <<>>

\* Translation taken from the relative pose under every tag.
TranslationRelative(tag, p1, p2) == TransOf(RelativePose(p1, p2))

Translation(tag, p1, p2) ==
    CASE tag = "se3" -> TransOf(p2)
      [] OTHER       -> TransOf(RelativePose(p1, p2))

Failure(kind) ==
    [kind |-> kind, rotation |-> <<>>, translation |-> <<>>,
     seqIdx |-> 0, frame1 |-> 0, frame2 |-> 0, endOfSequence |-> FALSE]

\* The index arithmetic, and whether the two images can be read.
LookupErr(s, i) ==
    LET seqKey == FirstGe(s.cumulativeLengths, i) IN
    IF seqKey = 0 THEN "IndexError"
    ELSE IF ~ImageExists(s.sequences[seqKey], Frame1(s, seqKey, i)) THEN "cv2.error"
    ELSE IF ~ImageExists(s.sequences[seqKey], Frame2(s, seqKey, i)) THEN "cv2.error"
    ELSE "none"

\* __getitem__(idx), with line1 and line2 the lines of the pose file read for
\* frame1 and frame2.
GetItemResult(s, i, line1, line2) ==
    LET seqKey == FirstGe(s.cumulativeLengths, i) IN
    IF LookupErr(s, i) # "none" THEN Failure(LookupErr(s, i))
    ELSE IF s.parameterization \notin KnownTags THEN Failure("None")
    ELSE [kind |-> "sample",
          rotation |-> Rotation(s.parameterization, Pose4x4(line1), Pose4x4(line2)),
          translation |-> Translation(s.parameterization, Pose4x4(line1), Pose4x4(line2)),
          seqIdx |-> s.sequences[seqKey],
          frame1 |-> Frame1(s, seqKey, i),
          frame2 |-> Frame2(s, seqKey, i),
          endOfSequence |-> EndOfSequence(s, seqKey, i)]

\* __getitem__ consuming the entry it served.
SelfConsumed(s, i) == [s EXCEPT !.length = s.length - 1]

\* The object after __getitem__: no field of self is assigned.
SelfAfterGetItem(s, i) == s

\* ------------------------------------------------------------------- state

NoPose == <<>>

NoRet == Failure("nocall")

NoArgs == [sequences |-> None, startFrames |-> None, endFrames |-> None,
           parameterization |-> "default"]

SeqRange(l) == {l[k] : k \in 1..Len(l)}

\* Indices offered to __getitem__: negative ones, 0, and those around every
\* window boundary.
IdxVals(s) == {-3, -1, 0} \cup {c + d : c \in SeqRange(s.cumulativeLengths), d \in -1..1}

Init ==
    /\ phase = "new"
    /\ args = NoArgs
    /\ self = NewSelf(NoArgs)
    /\ initErr = "none"
    /\ idx = 0
    /\ pose1 = NoPose
    /\ pose2 = NoPose
    /\ ret = NoRet

Construct ==
    /\ phase = "new"
    /\ \E n \in 0..MaxWindows :
       \E w \in [1..n -> WindowVals], sq \in Shapes, st \in Shapes, en \in Shapes,
          tag \in TagVals :
          LET a == [sequences |-> Shaped(Column(w, 1), sq),
                    startFrames |-> Shaped(Column(w, 2), st),
                    endFrames |-> Shaped(Column(w, 3), en),
                    parameterization |-> tag]
              r == KITTIDatasetInit(a)
          IN  /\ args' = a
              /\ initErr' = r.err
              /\ phase' = IF r.err = "none" THEN "ready" ELSE "failed"
              /\ self' = r.obj
    /\ UNCHANGED <<idx, pose1, pose2, ret>>

GetItem ==
    /\ phase = "ready"
    /\ \E i \in IdxVals(self) :
          LET read == IF LookupErr(self, i) = "none" THEN PoseLines ELSE {NoPose} IN
          \E line1 \in read, line2 \in read :
              /\ idx' = i
              /\ pose1' = line1
              /\ pose2' = line2
              /\ ret' = GetItemResult(self, i, line1, line2)
              /\ self' = SelfAfterGetItem(self, i)
    /\ UNCHANGED <<phase, args, initErr>>

Next == Construct \/ GetItem

Spec == Init /\ [][Next]_vars
\* ------------------------------------------------------------------ claims

called == phase = "ready" /\ ret.kind # "nocall"

InRange(s, i) == 0 <= i /\ i < DatasetLen(s)

\* Window k is the first whose cumulative length exceeds i.
Owns(s, k, i) ==
    /\ k \in 1..Len(s.cumulativeLengths)
    /\ s.cumulativeLengths[k] > i
    /\ \A j \in 1..(k - 1) : s.cumulativeLengths[j] <= i

CumulativeBefore(s, k) == IF k = 1 THEN 0 ELSE s.cumulativeLengths[k - 1]

RECURSIVE SumSpans(_, _)
SumSpans(starts, ends) ==
    IF Len(starts) = 0 THEN 0
    ELSE ends[1] - starts[1] + SumSpans(Tail(starts), Tail(ends))

AllGiven(a) == a.sequences.given /\ a.startFrames.given /\ a.endFrames.given

TwoWindowExample ==
    /\ self.sequences = <<0, 1>>
    /\ self.startFrames = <<0, 0>>
    /\ self.endFrames = <<3, 2>>

\* C1: for every idx in [0, length()), a returned sample has sequenceId =
\* sequences[k], frame1 = startFrames[k] + idx - cumulative[k-1] (0 for the first
\* window) and frame2 = frame1 + 1, for k the smallest window with
\* cumulative[k] > idx, and under a known tag a sample is returned; with windows
\* (seq0, 0..3), (seq1, 0..2), idx 3 gives (seq1, 0, 1, False) and idx 2 gives
\* (seq0, 2, 3, True).
C1_Routing ==
    (called /\ InRange(self, idx)) =>
        /\ self.parameterization \in KnownTags => ret.kind = "sample"
        /\ ret.kind \in {"sample", "None"}
        /\ ret.kind = "sample" =>
              /\ \E k \in 1..Len(self.sequences) :
                    /\ Owns(self, k, idx)
                    /\ ret.seqIdx = self.sequences[k]
                    /\ ret.frame1 = self.startFrames[k] + idx - CumulativeBefore(self, k)
                    /\ ret.frame2 = ret.frame1 + 1
              /\ (TwoWindowExample /\ idx = 3) =>
                    /\ ret.seqIdx = 1 /\ ret.frame1 = 0 /\ ret.frame2 = 1
                    /\ ret.endOfSequence = FALSE
              /\ (TwoWindowExample /\ idx = 2) =>
                    /\ ret.seqIdx = 0 /\ ret.frame1 = 2 /\ ret.frame2 = 3
                    /\ ret.endOfSequence = TRUE

C1_Witness ==
    /\ called /\ TwoWindowExample /\ idx = 3
    /\ ret.kind = "sample" /\ ret.seqIdx = 1 /\ ret.frame1 = 0

\* C2: for every constructed dataset and idx in [0, length()), the frames of a
\* returned sample lie in the owning window and in the sequence: startFrames[k]
\* <= frame1, frame2 = frame1 + 1, frame2 <= endFrames[k] <=
\* KITTIMaxFrames[sequences[k]]; no such idx fails for a missing frame.
C2_FramesExist ==
    (called /\ InRange(self, idx)) =>
        /\ ret.kind \notin {"IndexError", "cv2.error"}
        /\ ret.kind = "sample" =>
              \E k \in 1..Len(self.sequences) :
                  /\ Owns(self, k, idx)
                  /\ self.startFrames[k] <= ret.frame1
                  /\ ret.frame2 = ret.frame1 + 1
                  /\ ret.frame2 <= self.endFrames[k]
                  /\ self.endFrames[k] <= KITTIMaxFrames[self.sequences[k] + 1]
                  /\ ret.frame1 >= 0

C2_Witness ==
    /\ called /\ ret.kind = "sample" /\ InRange(self, idx)
    /\ Len(self.sequences) = 2 /\ Owns(self, 2, idx)
    /\ ret.frame2 = self.endFrames[2]

\* C3: when construction succeeds with sequences, startFrames and endFrames all
\* supplied, __len__() is the sum over the windows of endFrames[i] -
\* startFrames[i], and is positive.
C3_Length ==
    (phase = "ready" /\ AllGiven(args)) =>
        /\ DatasetLen(self) = SumSpans(args.startFrames.val, args.endFrames.val)
        /\ DatasetLen(self) > 0

C3_Witness ==
    /\ phase = "ready" /\ AllGiven(args)
    /\ Len(args.sequences.val) = 2
    /\ DatasetLen(self) = 1102

\* C4: for every idx in [0, length()), the endOfSequence flag of a returned
\* sample is true exactly when frame2 is endFrames[k] of the owning window k,
\* which is exactly when idx is the last index of that window.
C4_EndFlag ==
    (called /\ InRange(self, idx) /\ ret.kind = "sample") =>
        \E k \in 1..Len(self.sequences) :
            /\ Owns(self, k, idx)
            /\ ret.endOfSequence = (ret.frame2 = self.endFrames[k])
            /\ ret.endOfSequence = (idx = self.cumulativeLengths[k] - 1)

C4_Witness ==
    /\ called /\ InRange(self, idx) /\ ret.kind = "sample"
    /\ ret.endOfSequence /\ Len(self.sequences) = 2 /\ Owns(self, 1, idx)

\* C5: __getitem__(idx) fails, and returns nothing, for every idx outside
\* [0, length()): every negative idx and every idx >= length().
C5_OutOfRangeFails ==
    (called /\ ~InRange(self, idx)) => ret.kind \in {"IndexError", "cv2.error"}

\* The effective lists of a call: an argument left None is its default.
Effective(a) == NewSelf(a)

WindowRuleBroken(s, i) ==
    \/ s.startFrames[i] < 0
    \/ s.startFrames[i] > KITTIMaxFrames[s.sequences[i] + 1]
    \/ s.endFrames[i] <= s.startFrames[i]
    \/ s.endFrames[i] > KITTIMaxFrames[s.sequences[i] + 1]

RuleBroken(s) ==
    \/ \E i \in 1..Len(s.sequences) : s.sequences[i] < 0 \/ s.sequences[i] > 10
    \/ Len(s.startFrames) # Len(s.sequences)
    \/ Len(s.endFrames) # Len(s.sequences)
    \/ \E i \in 1..Len(s.sequences) : WindowRuleBroken(s, i)

\* C6: construction of a (non-empty) configuration fails with ValueError when a
\* sequence id is outside [0,10], a list length differs from len(sequences), or
\* a window has startFrame < 0, startFrame > maxFrame, endFrame <= startFrame or
\* endFrame > maxFrame; a configuration breaking none of these is accepted.
C6_Validation ==
    (phase # "new" /\ Len(Effective(args).sequences) > 0) =>
        /\ RuleBroken(Effective(args)) => (phase = "failed" /\ initErr = "ValueError")
        /\ ~RuleBroken(Effective(args)) => phase = "ready"

\* C7: a parameterization tag other than 'default', 'quaternion', 'euler' and
\* 'se3' is rejected at construction, and never accepted by the constructor.
C7_TagRejected ==
    (phase # "new" /\ args.parameterization \notin KnownTags) => phase # "ready"

Key(r) == <<r.kind, r.seqIdx, r.frame1, r.frame2, r.endOfSequence>>

\* C8: __getitem__ leaves the object as the constructor built it, so after any
\* calls __len__() is unchanged and __getitem__(idx) returns the (sequenceId,
\* frame1, frame2, endOfSequence) a first call on the new object returns.
C8_GetItemKeepsState ==
    called =>
        LET built == KITTIDatasetInit(args).obj IN
        /\ self = built
        /\ DatasetLen(self) = DatasetLen(built)
        /\ Key(ret) = Key(GetItemResult(built, idx, pose1, pose2))

C8_Witness ==
    /\ called /\ ret.kind = "sample" /\ idx > 0
    /\ Len(self.sequences) = 2 /\ Owns(self, 2, idx)

\* The rotations about z by a multiple of a quarter turn.
ZRotations ==
    {<<<<1, 0, 0>>, <<0, 1, 0>>, <<0, 0, 1>>>>,
     <<<<0, -1, 0>>, <<1, 0, 0>>, <<0, 0, 1>>>>,
     <<<<-1, 0, 0>>, <<0, -1, 0>>, <<0, 0, 1>>>>,
     <<<<0, 1, 0>>, <<-1, 0, 0>>, <<0, 0, 1>>>>}

Homogeneous(R, tr) ==
    <<<<R[1][1], R[1][2], R[1][3], tr[1]>>,
      <<R[2][1], R[2][2], R[2][3], tr[2]>>,
      <<R[3][1], R[3][2], R[3][3], tr[3]>>,
      <<0, 0, 0, 1>>>>

Encoded(tag, R) ==
    CASE tag = "default"    -> Tr2rpy(R)
      [] tag = "quaternion" -> R2q(R)
      [] tag = "euler"      -> Times10(Tr2eul(R))
      [] tag = "se3"        -> R2q(R)

Payload(r) == <<r.rotation, r.translation>>

\* C9: under 'se3' the rotation and translation returned are those of frame2's
\* absolute pose and are the same whatever the pose of frame1; under 'default',
\* 'quaternion' and 'euler' they are those of the transform M with pose1 * M =
\* pose2, and change with the pose of frame1.
C9_Se3Absolute ==
    (called /\ ret.kind = "sample") =>
        LET tag == self.parameterization IN
        /\ tag = "se3" =>
              /\ ret.rotation = R2q(RotOf(Pose4x4(pose2)))
              /\ ret.translation = TransOf(Pose4x4(pose2))
              /\ \A line \in PoseLines :
                    Payload(GetItemResult(self, idx, line, pose2)) = Payload(ret)
        /\ tag # "se3" =>
              /\ \E R \in ZRotations :
                    /\ MatMul(Pose4x4(pose1), Homogeneous(R, ret.translation))
                          = Pose4x4(pose2)
                    /\ ret.rotation = Encoded(tag, R)
              /\ \E line \in PoseLines :
                    Payload(GetItemResult(self, idx, line, pose2)) # Payload(ret)

C9_Witness ==
    /\ called /\ ret.kind = "sample" /\ self.parameterization = "se3"
    /\ pose1 # pose2
    /\ ret.translation # TransOf(RelativePose(Pose4x4(pose1), Pose4x4(pose2)))
    /\ ret.rotation # R2q(RotOf(RelativePose(Pose4x4(pose1), Pose4x4(pose2))))

AllNone(a) == ~a.sequences.given /\ ~a.startFrames.given /\ ~a.endFrames.given

\* C10: constructing with sequences, startFrames and endFrames all None
\* succeeds with the single window sequence 1, frames 0..1100: __len__() is
\* 1100 and cumulativeLengths is [1100].
C10_Defaults ==
    (phase # "new" /\ AllNone(args)) =>
        /\ phase = "ready"
        /\ self.sequences = <<1>>
        /\ self.startFrames = <<0>>
        /\ self.endFrames = <<1100>>
        /\ DatasetLen(self) = 1100
        /\ self.cumulativeLengths = <<1100>>

\* The sum of endFrames[j] - startFrames[j] over the first k windows of s.
SpansUpTo(s, k) == SumSpans(SubSeq(s.startFrames, 1, k), SubSeq(s.endFrames, 1, k))

\* C11: after every successful construction cumulativeLengths has one entry per
\* window, cumulativeLengths[k] is the sum of endFrames[j] - startFrames[j] over
\* j <= k, the table is strictly increasing from a first entry >= 1, and its
\* last entry is length; so once the checks before and inside the loop pass,
\* the 'length < 0' check does not fire and construction succeeds.
C11_CumulativeTable ==
    /\ phase = "ready" =>
          LET cum == self.cumulativeLengths
              n == Len(self.sequences)
          IN  /\ Len(cum) = n
              /\ n >= 1
              /\ \A k \in 1..n : cum[k] = SpansUpTo(self, k)
              /\ cum[1] >= 1
              /\ \A k \in 1..(n - 1) : cum[k] < cum[k + 1]
              /\ cum[n] = self.length
    /\ (/\ phase # "new"
        /\ PreCheck(NewSelf(args)) = "none"
        /\ CheckLoop(args, NewSelf(args), 1).err = "none") => phase = "ready"

C11_Witness ==
    /\ phase = "ready"
    /\ self.startFrames = <<2, 0>>
    /\ self.endFrames = <<3, 1101>>
    /\ self.cumulativeLengths = <<1, 1102>>
    /\ self.length = 1102
====
